---------------------------- MODULE Spec2Model ----------------------------
(***************************************************************************)
(* A model of the OMEGA protocol crate: the six operators (masking,        *)
(* resonance, sweep, Pfadinvarianz, weight transfer, DoubleKick), the      *)
(* byte/vector codec and the OmegaNode that drives them.                   *)
(*                                                                         *)
(* Numbers.  f64 values are carried in fixed point: the integer x stands   *)
(* for the real x / Scale.  Bytes, epochs, indices and the Sweep clock are *)
(* plain integers.  The discrete Fourier transform of a 5-vector is        *)
(* evaluated exactly in Q(sqrt 5) (see norm_sqr).                          *)
(***************************************************************************)
EXTENDS Integers, Sequences, FiniteSets, TLC

VARIABLES
    local_frequency,   \* node -> OmegaNode.local_frequency
    resonance,         \* node -> OmegaNode.resonance (omega, epsilon)
    epoch,             \* node -> OmegaNode.epoch
    message_buffer,    \* node -> OmegaNode.message_buffer (Vec, last = top)
    sweep_t,           \* node -> OmegaNode.sweep.t
    weights,           \* node -> OmegaNode.weight_transfer.weights
    params,            \* node -> OmegaNode.params (the NodeConfig's OmegaParams)
    ret,               \* the last call on a node and what it returned
    sent,              \* history: node -> for each buffered vector, how it was sent
    probe              \* the operator harness: input and outputs of a pure function

vars == <<local_frequency, resonance, epoch, message_buffer, sweep_t,
          weights, params, ret, sent, probe>>

nodeVars == <<local_frequency, resonance, epoch, message_buffer, sweep_t,
              weights, params, ret, sent>>

---------------------------------------------------------------------------
(* Fixed point *)

\* One real unit.  Every default parameter of types.rs and every byte value
\* (b - 128) / 128 is an exact multiple of 1 / Scale.
Scale == 128 * 50

Abs(x) == IF x < 0 THEN -x ELSE x

Min(a, b) == IF a < b THEN a ELSE b

Max(a, b) == IF a > b THEN a ELSE b

\* a / b rounded to the nearest integer (b > 0), halves upwards.
RoundDiv(a, b) == (2 * a + b) \div (2 * b)

\* A sequence given by its components, held as the tuple of their values.
Vec(f) == f \o <<>>

RECURSIVE SumSeq(_)
SumSeq(s) == IF s = <<>> THEN 0 ELSE Head(s) + SumSeq(Tail(s))

\* floor(sqrt(n)) for n >= 0, by bisection on [lo, hi).
RECURSIVE SqrtBetween(_, _, _)
SqrtBetween(n, lo, hi) ==
    IF hi - lo <= 1 THEN lo
    ELSE LET mid == (lo + hi) \div 2
         IN  IF mid * mid <= n THEN SqrtBetween(n, mid, hi)
                               ELSE SqrtBetween(n, lo, mid)

ISqrt(n) == SqrtBetween(n, 0, 46341)

\* pi, pi / 2 and 2 * pi in fixed point.
PiFx == 20106

HalfPiFx == PiFx \div 2

TwoPiFx == 2 * PiFx

\* sin on [0, pi / 2]: the Taylor polynomial up to x^9.
SinQuadrant(y) ==
    LET y2 == RoundDiv(y * y, Scale)
        t3 == RoundDiv(y * y2, 6 * Scale)
        t5 == RoundDiv(t3 * y2, 20 * Scale)
        t7 == RoundDiv(t5 * y2, 42 * Scale)
        t9 == RoundDiv(t7 * y2, 72 * Scale)
    IN  y - t3 + t5 - t7 + t9

\* f64::sin, for any x.
SinFx(x) ==
    LET y == x % TwoPiFx
        z == IF y > PiFx THEN y - PiFx ELSE y
        q == IF z > HalfPiFx THEN PiFx - z ELSE z
        s == SinQuadrant(q)
    IN  IF y > PiFx THEN -s ELSE s

\* f64::cos.
CosFx(x) == SinFx(x + HalfPiFx)

\* 1 / e in fixed point.
EInvFx == 2354

RECURSIVE TimesEInv(_, _)
TimesEInv(x, k) == IF k = 0 THEN x ELSE TimesEInv(RoundDiv(x * EInvFx, Scale), k - 1)

\* exp(-r) for r in [0, 1): the Taylor polynomial up to r^8.
ExpNegFrac(r) ==
    LET t2 == RoundDiv(r * r, 2 * Scale)
        t3 == RoundDiv(t2 * r, 3 * Scale)
        t4 == RoundDiv(t3 * r, 4 * Scale)
        t5 == RoundDiv(t4 * r, 5 * Scale)
        t6 == RoundDiv(t5 * r, 6 * Scale)
        t7 == RoundDiv(t6 * r, 7 * Scale)
        t8 == RoundDiv(t7 * r, 8 * Scale)
    IN  Scale - r + t2 - t3 + t4 - t5 + t6 - t7 + t8

\* f64::exp(-x) for x >= 0.
ExpNegFx(x) == TimesEInv(ExpNegFrac(x % Scale), x \div Scale)

---------------------------------------------------------------------------
(* Bytes *)

Byte == 0..255

Bit(a, i) == (a \div (2 ^ i)) % 2

\* u8 ^ u8
Xor8(a, b) ==
    ((Bit(a, 0) + Bit(b, 0)) % 2)
    + 2 * ((Bit(a, 1) + Bit(b, 1)) % 2)
    + 4 * ((Bit(a, 2) + Bit(b, 2)) % 2)
    + 8 * ((Bit(a, 3) + Bit(b, 3)) % 2)
    + 16 * ((Bit(a, 4) + Bit(b, 4)) % 2)
    + 32 * ((Bit(a, 5) + Bit(b, 5)) % 2)
    + 64 * ((Bit(a, 6) + Bit(b, 6)) % 2)
    + 128 * ((Bit(a, 7) + Bit(b, 7)) % 2)

---------------------------------------------------------------------------
(* Key derivation: types.rs, MaskingParams *)

\* SHA-256 over omega.to_le_bytes() followed by epoch.to_le_bytes(), and the
\* theta that ephemeral_from_frequency derives from the digest's first eight
\* bytes, tabulated for the frequencies and epochs the model uses.  omega is
\* in fixed point; theta is carried as the low 15 bits of its f64 bit
\* pattern, the only part of theta the masking operator reads.
Sha256Table ==
    {
        [omega |-> 6400, epoch |-> 0, theta |-> 28750, hash |-> <<
            50, 57, 176, 92, 56, 184, 37, 235, 183, 159, 16, 49,
            114, 67, 130, 146, 162, 42, 9, 81, 53, 26, 107, 129,
            190, 29, 245, 212, 71, 118, 204, 101>>],
        [omega |-> 6400, epoch |-> 1, theta |-> 3453, hash |-> <<
            144, 30, 206, 124, 175, 67, 19, 154, 19, 15, 112, 4,
            129, 161, 29, 218, 204, 142, 9, 7, 170, 202, 161, 42,
            244, 56, 226, 252, 229, 204, 189, 250>>],
        [omega |-> 6400, epoch |-> 2, theta |-> 19774, hash |-> <<
            95, 84, 66, 172, 165, 221, 226, 40, 243, 145, 116, 74,
            226, 135, 227, 94, 243, 200, 169, 70, 230, 86, 131, 120,
            46, 112, 57, 24, 94, 102, 165, 235>>],
        [omega |-> 6400, epoch |-> 3, theta |-> 27050, hash |-> <<
            225, 81, 164, 180, 63, 174, 249, 127, 155, 44, 64, 111,
            24, 22, 148, 107, 3, 94, 79, 146, 171, 37, 92, 120, 105,
            101, 128, 227, 202, 255, 97, 168>>],
        [omega |-> 9600, epoch |-> 0, theta |-> 17144, hash |-> <<
            46, 81, 193, 193, 48, 7, 143, 110, 193, 217, 151, 119,
            231, 197, 23, 83, 198, 130, 252, 62, 173, 184, 206, 73,
            226, 192, 29, 136, 38, 57, 90, 81>>],
        [omega |-> 9600, epoch |-> 1, theta |-> 5765, hash |-> <<
            115, 187, 205, 4, 126, 216, 116, 239, 227, 174, 62, 148,
            149, 113, 140, 226, 8, 184, 95, 202, 185, 68, 127, 3,
            184, 115, 50, 106, 15, 132, 230, 87>>],
        [omega |-> 9600, epoch |-> 2, theta |-> 5081, hash |-> <<
            236, 160, 116, 88, 111, 89, 132, 189, 103, 166, 55, 9,
            239, 0, 138, 81, 111, 176, 182, 39, 15, 134, 43, 89, 11,
            70, 161, 72, 158, 11, 149, 43>>],
        [omega |-> 9600, epoch |-> 3, theta |-> 6232, hash |-> <<
            208, 201, 51, 111, 243, 15, 67, 159, 17, 96, 156, 128,
            160, 225, 17, 173, 98, 132, 115, 35, 230, 143, 13, 125,
            9, 243, 58, 212, 48, 163, 147, 83>>],
        [omega |-> 16000, epoch |-> 0, theta |-> 5905, hash |-> <<
            117, 121, 86, 240, 246, 134, 161, 217, 29, 0, 131, 184,
            89, 40, 72, 140, 157, 121, 194, 245, 102, 183, 194, 96,
            127, 154, 128, 42, 26, 161, 222, 39>>],
        [omega |-> 16000, epoch |-> 1, theta |-> 5365, hash |-> <<
            236, 83, 84, 177, 126, 51, 235, 59, 74, 212, 113, 155,
            200, 130, 110, 65, 43, 230, 30, 93, 75, 98, 163, 242,
            129, 65, 161, 253, 154, 148, 126, 139>>],
        [omega |-> 16000, epoch |-> 2, theta |-> 26535, hash |-> <<
            52, 166, 179, 2, 160, 109, 96, 217, 184, 33, 167, 21,
            201, 87, 121, 126, 250, 120, 196, 81, 11, 95, 91, 253,
            34, 237, 174, 234, 153, 208, 150, 158>>],
        [omega |-> 16000, epoch |-> 3, theta |-> 5223, hash |-> <<
            249, 224, 255, 140, 34, 170, 181, 245, 143, 1, 204, 109,
            17, 101, 14, 138, 6, 71, 178, 94, 212, 76, 255, 10, 92,
            66, 145, 40, 198, 38, 72, 81>>],
        [omega |-> 9600, epoch |-> 100, theta |-> 12792, hash |-> <<
            209, 196, 163, 157, 161, 159, 165, 180, 187, 48, 134,
            195, 49, 53, 110, 114, 208, 13, 136, 21, 155, 233, 32,
            241, 28, 253, 171, 61, 132, 206, 132, 64>>],
        [omega |-> 9600, epoch |-> 101, theta |-> 20898, hash |-> <<
            152, 170, 145, 121, 106, 119, 27, 10, 171, 8, 171, 141,
            182, 18, 131, 52, 9, 129, 41, 48, 121, 232, 154, 116,
            227, 32, 73, 197, 38, 35, 1, 191>>]
    }

\* MaskingParams::ephemeral_from_frequency hashing the frequency alone.
ephemeral_without_epoch(omega, e) ==
    LET row == CHOOSE r \in Sha256Table : r.omega = omega /\ r.epoch = 0
    IN  [theta |-> row.theta, sigma |-> row.hash]

\* MaskingParams::ephemeral_from_frequency
ephemeral_from_frequency(omega, e) ==
    LET row == CHOOSE r \in Sha256Table : r.omega = omega /\ r.epoch = e
    IN  [theta |-> row.theta, sigma |-> row.hash]

---------------------------------------------------------------------------
(* Masking operator: operators/masking.rs *)

\* MaskingOperator::permute with an additive step instead of XOR.
permute_add(data, sigma) ==
    Vec([i \in 1..Len(data) |-> (data[i] + sigma[((i - 1) % 32) + 1]) % 256])

\* MaskingOperator::permute: data[i] ^= sigma[i % 32] (indices from 0).
permute(data, sigma) ==
    Vec([i \in 1..Len(data) |-> Xor8(data[i], sigma[((i - 1) % 32) + 1])])

\* The seed rotate builds: seed[i] = (theta_bits >> (i % 8)) & 0xFF.
rotate_seed(theta) ==
    Vec([i \in 1..32 |-> (theta \div (2 ^ ((i - 1) % 8))) % 256])

\* StdRng is a library generator; what rotate relies on is that the stream
\* is a function of the seed alone and that each gen::<u8>() steps it once.
\* A 16-bit linear congruential generator stands for it.
rng_from_seed(seed) ==
    SumSeq(Vec([i \in 1..32 |-> i * seed[i]])) % 65536

rng_step(state) == (state * 25173 + 13849) % 65536

RECURSIVE rng_stream(_, _)
rng_stream(state, n) ==
    IF n = 0 THEN <<>>
    ELSE LET s == rng_step(state)
         IN  <<(s \div 256) % 256>> \o rng_stream(s, n - 1)

\* MaskingOperator::rotate
rotate(data, theta) ==
    LET stream == rng_stream(rng_from_seed(rotate_seed(theta)), Len(data))
    IN  Vec([i \in 1..Len(data) |-> Xor8(data[i], stream[i])])

\* MaskingOperator::mask
mask(message, p) == rotate(permute(message, p.sigma), p.theta)

\* MaskingOperator::unmask
unmask(masked, p) == mask(masked, p)

---------------------------------------------------------------------------
(* Results: types.rs, Result<T> = std::result::Result<T, OmegaError> *)

Ok(v) == [ok |-> TRUE, value |-> v, error |-> "none"]

Err(kind) == [ok |-> FALSE, value |-> <<>>, error |-> kind]

\* Option<Vec<u8>>
Some(bytes) == [some |-> TRUE, bytes |-> bytes]

None == [some |-> FALSE, bytes |-> <<>>]

---------------------------------------------------------------------------
(* Vectors: OmegaVector = Array1<f64>, a sequence of fixed-point numbers *)

Zeros(n) == Vec([i \in 1..n |-> 0])

VecAdd(a, b) == Vec([i \in 1..Len(a) |-> a[i] + b[i]])

VecSub(a, b) == Vec([i \in 1..Len(a) |-> a[i] - b[i]])

\* v * c for a fixed-point factor c
VecScale(v, c) == Vec([i \in 1..Len(v) |-> RoundDiv(v[i] * c, Scale)])

---------------------------------------------------------------------------
(* Codec: utils.rs *)

\* The dimension utils.rs hard-codes.
Dim == 5

\* vectorize: fails on empty data; pads to a multiple of 5 with zero bytes,
\* keeps the first 5 bytes, byte b -> (b - 128) / 128.
\* utils::vectorize without the check for an empty input.
vectorize_unchecked(data) ==
    Ok(Vec([i \in 1..Dim |->
           IF i <= Len(data) THEN ((data[i] - 128) * Scale) \div 128
           ELSE -Scale]))

\* utils::vectorize: pad with zero bytes to a multiple of Dim, scale each
\* byte to [-1, 1), and keep the first Dim components.
vectorize(data) ==
    IF data = <<>> THEN Err("VectorizationError")
    ELSE LET target_len == ((Len(data) + 4) \div Dim) * Dim
             padded == Vec([i \in 1..target_len |->
                           IF i <= Len(data) THEN data[i] ELSE 0])
         IN  Ok(Vec([i \in 1..Dim |->
                    IF i <= Len(padded)
                    THEN ((padded[i] - 128) * Scale) \div 128
                    ELSE 0]))

\* devectorize scaling by 127 (the largest positive i8) instead of 128.
devectorize_127(v) ==
    Ok(Vec([i \in 1..Len(v) |->
           Min(Max(v[i] * 127 + 128 * Scale, 0), 255 * Scale) \div Scale]))

\* devectorize stopping one component early (a loop over 0..len - 1).
devectorize_short(v) ==
    Ok(Vec([i \in 1..(Len(v) - 1) |->
           Min(Max(v[i] * 128 + 128 * Scale, 0), 255 * Scale) \div Scale]))

\* devectorize: byte = ((x * 128 + 128).max(0).min(255)) as u8; the cast of
\* a non-negative f64 to u8 drops the fraction.
devectorize(v) ==
    Ok(Vec([i \in 1..Len(v) |->
           Min(Max(v[i] * 128 + 128 * Scale, 0), 255 * Scale) \div Scale]))

\* utils::set_frequency: v[i] + sin(omega * i) * 0.1 (indices from 0).
set_frequency(v, omega) ==
    IF Len(v) = 0 THEN Ok(v)
    ELSE Ok(Vec([i \in 1..Len(v) |-> v[i] + RoundDiv(SinFx(omega * (i - 1)), 10)]))

---------------------------------------------------------------------------
(* Sweep: operators/sweep.rs *)

\* Sweep::new sets period: 100.0
SweepPeriod == 100

\* Sweep::new sets delta_tau: 0.2
SweepDeltaTau == 1280

\* Sweep::new
Sweep_new(tau0, beta, schedule) ==
    [tau0 |-> tau0, beta |-> beta, schedule |-> schedule, t |-> 0,
     period |-> SweepPeriod, delta_tau |-> SweepDeltaTau]

\* Sweep::compute_mean
compute_mean(v) == IF Len(v) = 0 THEN 0 ELSE RoundDiv(SumSeq(v), Len(v))

\* Sweep::sigmoid_gate written as 1 + tanh(z / 2), that is 2 / (1 + exp(-z)).
sigmoid_gate_tanh(sw, x, tau) ==
    LET z == RoundDiv((x - tau) * Scale, sw.beta)
    IN  IF z >= 0
        THEN RoundDiv(2 * Scale * Scale, Scale + ExpNegFx(z))
        ELSE LET e == ExpNegFx(-z) IN RoundDiv(2 * Scale * e, Scale + e)

\* Sweep::sigmoid_gate: 1 / (1 + exp(-z)) with z = (x - tau) / beta; for
\* z < 0 the same value is taken as exp(z) / (1 + exp(z)).
sigmoid_gate(sw, x, tau) ==
    LET z == RoundDiv((x - tau) * Scale, sw.beta)
    IN  IF z >= 0
        THEN RoundDiv(Scale * Scale, Scale + ExpNegFx(z))
        ELSE LET e == ExpNegFx(-z) IN RoundDiv(Scale * e, Scale + e)

\* Sweep::compute_threshold
compute_threshold(sw, t) ==
    CASE sw.schedule = "cosine" ->
            LET phase == RoundDiv(PiFx * t, sw.period)
            IN  sw.tau0 + RoundDiv((Scale + CosFx(phase)) * sw.delta_tau, 2 * Scale)
      [] sw.schedule = "linear" ->
            sw.tau0 + RoundDiv((t % sw.period) * sw.delta_tau, sw.period)
      [] OTHER -> sw.tau0

\* Sweep::transform advancing the clock before it computes the threshold.
Sweep_transform_ticked(sw, v) ==
    LET mu == compute_mean(v)
        tau == compute_threshold(sw, sw.t + 1)
        gate == sigmoid_gate(sw, mu, tau)
    IN  [out |-> VecScale(v, gate), sweep |-> [sw EXCEPT !.t = sw.t + 1]]

\* Sweep::transform: the gated vector and the Sweep with its clock advanced.
Sweep_transform(sw, v) ==
    LET mu == compute_mean(v)
        tau == compute_threshold(sw, sw.t)
        gate == sigmoid_gate(sw, mu, tau)
    IN  [out |-> VecScale(v, gate), sweep |-> [sw EXCEPT !.t = sw.t + 1]]

---------------------------------------------------------------------------
(* Pfadinvarianz: operators/pfadinvarianz.rs *)

\* Index lists hold 0-based indices, as in the code.
Identity(d) == [i \in 1..d |-> i - 1]

\* perm.swap(a, b) for 0-based positions a and b
Swapped(perm, a, b) ==
    Vec([i \in 1..Len(perm) |->
        IF i = a + 1 THEN perm[b + 1]
        ELSE IF i = b + 1 THEN perm[a + 1]
        ELSE perm[i]])

\* Pfadinvarianz::generate_permutations adding the 3-cycle from dimension 4 on.
generate_permutations_from_four(d) ==
    IF d = 0 THEN <<>>
    ELSE <<Identity(d)>>
         \o [shift \in 1..(d - 1) |-> [i \in 1..d |-> ((i - 1) + shift) % d]]
         \o <<[i \in 1..d |-> d - i]>>
         \o [k \in 1..(d - 1) |-> Swapped(Identity(d), k - 1, k)]
         \o (IF d >= 4
             THEN <<[i \in 1..d |->
                       IF i = 1 THEN 1 ELSE IF i = 2 THEN 2
                       ELSE IF i = 3 THEN 0 ELSE i - 1]>>
             ELSE <<>>)

\* Pfadinvarianz::generate_permutations
generate_permutations(d) ==
    IF d = 0 THEN <<>>
    ELSE <<Identity(d)>>
         \o [shift \in 1..(d - 1) |-> [i \in 1..d |-> ((i - 1) + shift) % d]]
         \o <<[i \in 1..d |-> d - i]>>
         \o [k \in 1..(d - 1) |-> Swapped(Identity(d), k - 1, k)]
         \o (IF d >= 3
             THEN <<[i \in 1..d |->
                       IF i = 1 THEN 1 ELSE IF i = 2 THEN 2
                       ELSE IF i = 3 THEN 0 ELSE i - 1]>>
             ELSE <<>>)

\* Pfadinvarianz::apply_permutation: result[i] = v[perm[i]]
apply_permutation(v, perm) ==
    Vec([i \in 1..Len(v) |->
        IF i <= Len(perm) /\ perm[i] < Len(v) THEN v[perm[i] + 1] ELSE 0])

\* The sum apply accumulates over the first n index lists.
RECURSIVE permuted_sum(_, _, _)
permuted_sum(perms, v, n) ==
    IF n = 0 THEN Zeros(Len(v))
    ELSE VecAdd(permuted_sum(perms, v, n - 1), apply_permutation(v, perms[n]))

\* Pfadinvarianz::apply
Pfadinvarianz_apply(perms, v) ==
    IF perms = <<>> THEN v
    ELSE LET sum == permuted_sum(perms, v, Len(perms))
         IN  Vec([i \in 1..Len(v) |-> RoundDiv(sum[i], Len(perms))])

\* Pfadinvarianz::default: Self::new(5)
DefaultPermutations == generate_permutations(5)

---------------------------------------------------------------------------
(* Weight transfer: operators/weight_transfer.rs *)

ScaleLevels == {"Micro", "Meso", "Macro"}

\* WeightTransfer::default: gamma 0.3, weights Micro 0.2, Meso 0.5, Macro 0.3
DefaultGamma == 1920

DefaultLevelWeights ==
    [l \in ScaleLevels |->
        IF l = "Micro" THEN 1280 ELSE IF l = "Meso" THEN 3200 ELSE 1920]

\* WeightTransfer::new: the targets start as a copy of the weights.
WeightTransfer_new(gamma, w) ==
    [gamma |-> gamma, weights |-> w, target_weights |-> w]

\* WeightTransfer::update_weights
update_weights(wt) ==
    [l \in DOMAIN wt.weights |->
        LET target == IF l \in DOMAIN wt.target_weights
                      THEN wt.target_weights[l] ELSE 0
        IN  RoundDiv((Scale - wt.gamma) * wt.weights[l] + wt.gamma * target,
                     Scale)]

\* WeightTransfer::lowpass_filter: the mean over a window of radius 1
lowpass_filter(v) ==
    Vec([i \in 1..Len(v) |->
        LET lo == Max(i - 1, 1)
            hi == Min(i + 1, Len(v))
        IN  RoundDiv(SumSeq(Vec([j \in 1..(hi - lo + 1) |-> v[lo + j - 1]])),
                     hi - lo + 1)])

\* WeightTransfer::highpass_filter
highpass_filter(v) == VecSub(v, lowpass_filter(v))

\* WeightTransfer::bandpass_filter
bandpass_filter(v) ==
    LET s == VecAdd(lowpass_filter(v), highpass_filter(v))
    IN  Vec([i \in 1..Len(v) |-> RoundDiv(s[i], 2)])

\* WeightTransfer::project_to_scale
project_to_scale(v, level) ==
    CASE level = "Micro" -> highpass_filter(v)
      [] level = "Meso" -> bandpass_filter(v)
      [] level = "Macro" -> lowpass_filter(v)

\* The sum transform accumulates over the levels of the weight map.
RECURSIVE weighted_sum(_, _, _)
weighted_sum(w, v, levels) ==
    IF levels = {} THEN Zeros(Len(v))
    ELSE LET l == CHOOSE x \in levels : TRUE
         IN  VecAdd(VecScale(project_to_scale(v, l), w[l]),
                    weighted_sum(w, v, levels \ {l}))

\* WeightTransfer::transform combining with the weights it found and
\* updating them afterwards.
WeightTransfer_transform_stale(wt, v) ==
    [out |-> weighted_sum(wt.weights, v, DOMAIN wt.weights),
     wt |-> [wt EXCEPT !.weights = update_weights(wt)]]

\* WeightTransfer::transform: the weights are updated first, the projections
\* are then combined with the updated weights.
WeightTransfer_transform(wt, v) ==
    LET w == update_weights(wt)
    IN  [out |-> weighted_sum(w, v, DOMAIN w),
         wt |-> [wt EXCEPT !.weights = w]]

\* WeightTransfer::set_target_weights: the target map is cleared and
\* refilled from the given entries.
set_target_weights(wt, targets) == [wt EXCEPT !.target_weights = targets]

---------------------------------------------------------------------------
(* DoubleKick: operators/doublekick.rs *)

\* sqrt(sum of squares)
Norm(v) == ISqrt(SumSeq(Vec([i \in 1..Len(v) |-> v[i] * v[i]])))

Dot(a, b) == RoundDiv(SumSeq(Vec([i \in 1..Len(a) |-> a[i] * b[i]])), Scale)

\* u / norm when norm > 1e-10 (below one fixed-point unit: norm > 0)
Normalized(u) ==
    LET n == Norm(u)
    IN  IF n > 0 THEN Vec([i \in 1..Len(u) |-> RoundDiv(u[i] * Scale, n)]) ELSE u

\* DoubleKick::generate_orthonormal_basis without the Gram-Schmidt step:
\* both draws are normalized as they are.
generate_normalized_pair(r1, r2) == <<Normalized(r1), Normalized(r2)>>

\* DoubleKick::generate_orthonormal_basis, for the two vectors r1 and r2
\* that the thread-local generator draws from [-1, 1).
generate_orthonormal_basis(r1, r2) ==
    LET u1 == Normalized(r1)
        u2 == VecSub(r2, VecScale(u1, Dot(u1, r2)))
    IN  <<u1, Normalized(u2)>>

\* DoubleKick::apply: v + alpha1 * u1 + alpha2 * u2
DoubleKick_apply(dk, v, r1, r2) ==
    IF Len(v) = 0 THEN v
    ELSE LET basis == generate_orthonormal_basis(r1, r2)
         IN  VecAdd(VecAdd(v, VecScale(basis[1], dk.alpha1)),
                    VecScale(basis[2], dk.alpha2))

---------------------------------------------------------------------------
(* Resonance: operators/resonance.rs *)

\* ResonanceOperator::new sets epsilon: 0.1
DefaultEpsilon == 640

\* ResonanceOperator::new
ResonanceOperator_new(omega) == [omega |-> omega, epsilon |-> DefaultEpsilon]

\* 4 * cos(2 * pi * m / n) as a + b * sqrt(5), for n in 1..6 and m in 0..n-1.
Cos4(m, n) ==
    CASE m = 0 -> [a |-> 4, b |-> 0]
      [] n = 2 -> [a |-> -4, b |-> 0]
      [] n = 3 -> [a |-> -2, b |-> 0]
      [] n = 4 -> [a |-> IF m = 2 THEN -4 ELSE 0, b |-> 0]
      [] n = 5 -> [a |-> -1, b |-> IF m \in {1, 4} THEN 1 ELSE -1]
      [] n = 6 -> [a |-> IF m = 3 THEN -4 ELSE IF m \in {1, 5} THEN 2 ELSE -2,
                   b |-> 0]

\* The circular autocorrelation of v: at lag j (entry j + 1) the sum over n
\* of v[n] * v[n + j].
Autocorr(v) ==
    Vec([j \in 1..Len(v) |->
        SumSeq(Vec([i \in 1..Len(v) |->
            v[i] * v[((i + j - 2) % Len(v)) + 1]]))])

\* 4 * |X[k]|^2 for the forward transform X of a real signal with
\* autocorrelation r, as a + b * sqrt(5):
\* |X[k]|^2 = sum over j of r[j] * cos(2 pi k j / N).
norm_sqr(r, k) ==
    LET n == Len(r)
        term == Vec([j \in 1..n |-> Cos4((k * (j - 1)) % n, n)])
    IN  [a |-> SumSeq(Vec([j \in 1..n |-> r[j] * term[j].a])),
         b |-> SumSeq(Vec([j \in 1..n |-> r[j] * term[j].b]))]

\* p / q against sqrt(5) + 2 = [4; 4, 4, ...] for p, q > 0, by the continued
\* fraction (no product is formed, so nothing overflows).
RECURSIVE AbovePhi(_, _), BelowPhi(_, _)
AbovePhi(p, q) ==
    LET k == p \div q
        s == p % q
    IN  IF k /= 4 THEN k > 4 ELSE IF s = 0 THEN FALSE ELSE BelowPhi(q, s)

BelowPhi(p, q) ==
    LET k == p \div q
        s == p % q
    IN  IF k /= 4 THEN k < 4 ELSE IF s = 0 THEN TRUE ELSE AbovePhi(q, s)

\* p > q * sqrt(5) for p, q > 0
ExceedsRoot5(p, q) ==
    LET k == p \div q
        s == p % q
    IN  IF k /= 2 THEN k > 2 ELSE IF s = 0 THEN FALSE ELSE BelowPhi(q, s)

\* p + q * sqrt(5) > 0
PositiveQ5(p, q) ==
    IF q = 0 THEN p > 0
    ELSE IF p = 0 THEN q > 0
    ELSE IF p > 0 /\ q > 0 THEN TRUE
    ELSE IF p < 0 /\ q < 0 THEN FALSE
    ELSE IF p > 0 THEN ExceedsRoot5(p, -q)
    ELSE ~ExceedsRoot5(-p, q)

\* magnitude > max_magnitude, on the squared magnitudes
Greater(x, y) == PositiveQ5(x.a - y.a, x.b - y.b)

\* The search loop of compute_dominant_frequency over bins i..len-1, with
\* the running maximum best = (max_magnitude, max_index).
RECURSIVE max_bin(_, _, _)
max_bin(r, i, best) ==
    IF i >= Len(r) THEN best
    ELSE LET magnitude == norm_sqr(r, i)
         IN  max_bin(r, i + 1,
                     IF Greater(magnitude, best.magnitude)
                     THEN [magnitude |-> magnitude, index |-> i]
                     ELSE best)

\* The bin selected when the search starts at the DC bin (no skip(1)).
dominant_index_with_dc(v) ==
    max_bin(Autocorr(v), 0,
            [magnitude |-> [a |-> 0, b |-> 0], index |-> 0]).index

\* The bin compute_dominant_frequency selects: the DC bin is skipped.
dominant_index(v) ==
    max_bin(Autocorr(v), 1,
            [magnitude |-> [a |-> 0, b |-> 0], index |-> 0]).index

\* ResonanceOperator::compute_dominant_frequency
compute_dominant_frequency(v) ==
    IF Len(v) = 0 THEN 0
    ELSE RoundDiv(dominant_index(v) * TwoPiFx, Len(v))

\* ResonanceOperator::is_resonant
ResonanceOperator_is_resonant(r, v) ==
    Abs(compute_dominant_frequency(v) - r.omega) < r.epsilon

\* ResonanceOperator::apply
ResonanceOperator_apply(r, v) ==
    IF Abs(compute_dominant_frequency(v) - r.omega) < r.epsilon
    THEN v ELSE Zeros(Len(v))

---------------------------------------------------------------------------
(* Parameters: types.rs *)

\* OmegaParams::default
DefaultParams ==
    [masking |-> [theta |-> 0, sigma |-> [i \in 1..32 |-> 0]],
     resonance |-> [omega |-> Scale, epsilon |-> 640],
     sweep |-> [tau0 |-> 3200, beta |-> 640, schedule |-> "cosine"],
     pfadinvarianz |-> [permutation_count |-> 24],
     weight_transfer |-> [gamma |-> DefaultGamma, levels |-> DefaultLevelWeights],
     doublekick |-> [alpha1 |-> 320, alpha2 |-> -192]]

\* Parameters a caller may set instead: the masking parameters of the
\* masking test (theta 1.234, sigma 42 in every byte) and a wider band.
TunedParams ==
    [DefaultParams EXCEPT
        !.masking = [theta |-> 14680, sigma |-> [i \in 1..32 |-> 42]],
        !.resonance = [omega |-> 9600, epsilon |-> 1920]]

\* The frequencies of the tests and of the example: 1.0, 1.5 and 2.5.
Freqs == {6400, 9600, 16000}

\* NodeConfig values
NodeConfig(omega, p) == [omega |-> omega, params |-> p]

\* The pairs of configurations two nodes are built from: the default pair,
\* the pairs of the tests, and a pair whose stored parameters differ.
NodeConfigs ==
    {<<NodeConfig(9600, DefaultParams), NodeConfig(9600, DefaultParams)>>,
     <<NodeConfig(6400, DefaultParams), NodeConfig(16000, DefaultParams)>>,
     <<NodeConfig(6400, DefaultParams), NodeConfig(9600, TunedParams)>>}

---------------------------------------------------------------------------
(* OmegaNode: node.rs *)

Nodes == {1, 2}

\* DoubleKick::new
DoubleKick_new(alpha1, alpha2) ==
    [alpha1 |-> alpha1, alpha2 |-> alpha2, eta |-> Abs(alpha1) + Abs(alpha2)]

\* The operators a node owns, rebuilt from its fields.
node_sweep(n) ==
    [Sweep_new(params[n].sweep.tau0, params[n].sweep.beta,
               params[n].sweep.schedule) EXCEPT !.t = sweep_t[n]]

node_weight_transfer(n) ==
    [WeightTransfer_new(DefaultGamma, DefaultLevelWeights)
        EXCEPT !.weights = weights[n]]

node_doublekick(n) ==
    DoubleKick_new(params[n].doublekick.alpha1, params[n].doublekick.alpha2)

\* The record of a call: the operation, the message it was given, whether
\* poll_network handed it a vector, and the value it returned.
Call(op) ==
    [op |-> op, message |-> <<>>, polled |-> FALSE,
     ok |-> TRUE, error |-> "none",
     some |-> FALSE, bytes |-> <<>>, vec |-> <<>>]

\* OmegaNode::derive_masking_params returning the parameters of the config.
derive_stored_params(n, omega) == params[n].masking

\* OmegaNode::derive_masking_params
derive_masking_params(n, omega) == ephemeral_from_frequency(omega, epoch[n])

\* OmegaNode::compute_dominant_frequency
node_dominant_frequency(n, v) == compute_dominant_frequency(v)

\* OmegaNode::is_resonant comparing the difference without abs().
is_resonant_signed(n, v) ==
    node_dominant_frequency(n, v) - local_frequency[n]
        < params[n].resonance.epsilon

\* OmegaNode::is_resonant
is_resonant(n, v) ==
    Abs(node_dominant_frequency(n, v) - local_frequency[n])
        < params[n].resonance.epsilon

\* OmegaNode::new, for both nodes
NodesNew(c) ==
    /\ local_frequency = [n \in Nodes |-> c[n].omega]
    /\ resonance = [n \in Nodes |-> ResonanceOperator_new(c[n].omega)]
    /\ params = [n \in Nodes |-> c[n].params]
    /\ epoch = [n \in Nodes |-> 0]
    /\ message_buffer = [n \in Nodes |-> <<>>]
    /\ sweep_t = [n \in Nodes |-> 0]
    /\ weights = [n \in Nodes |-> DefaultLevelWeights]
    /\ sent = [n \in Nodes |-> <<>>]
    /\ ret = Call("new")

Init ==
    /\ \E c \in NodeConfigs : NodesNew(c)
    /\ probe = [fn |-> "none"]

\* Steps 1 to 4 of send_message: the Result, the vector to broadcast and
\* the stateful operators as the call leaves them.
send_pipeline(n, message, target_freq, r1, r2) ==
    LET masking_params == derive_masking_params(n, target_freq)
        m0 == mask(message, masking_params)
        vres == vectorize(m0)
    IN  IF ~vres.ok
        THEN [result |-> vres, v |-> <<>>,
              sweep |-> node_sweep(n), wt |-> node_weight_transfer(n)]
        ELSE LET v1 == set_frequency(vres.value, target_freq).value
                 s == Sweep_transform(node_sweep(n), v1)
                 v3 == Pfadinvarianz_apply(DefaultPermutations, s.out)
                 w == WeightTransfer_transform(node_weight_transfer(n), v3)
                 v5 == DoubleKick_apply(node_doublekick(n), w.out, r1, r2)
             IN  [result |-> Ok(<<>>), v |-> v5,
                  sweep |-> s.sweep, wt |-> w.wt]

\* OmegaNode::send_message with the Sweep clock advanced before the message
\* is vectorized, so that a failing call has already ticked it.
SendMessageTicking(n, message, target_freq, r1, r2) ==
    LET p == send_pipeline(n, message, target_freq, r1, r2)
    IN  /\ ret' = [Call("send_message") EXCEPT
                      !.message = message,
                      !.ok = p.result.ok, !.error = p.result.error]
        /\ sweep_t' = [sweep_t EXCEPT ![n] = @ + 1]
        /\ IF p.result.ok
           THEN /\ weights' = [weights EXCEPT ![n] = p.wt.weights]
                /\ message_buffer' =
                       [message_buffer EXCEPT ![n] = Append(@, p.v)]
                /\ sent' = [sent EXCEPT ![n] = Append(@,
                       [from |-> n, message |-> message,
                        target_freq |-> target_freq, epoch |-> epoch[n]])]
           ELSE UNCHANGED <<weights, message_buffer, sent>>
        /\ UNCHANGED <<local_frequency, resonance, epoch, params, probe>>

\* OmegaNode::send_message with broadcast pushing the vector into the buffer
\* of the other node.
SendMessageToPeer(n, message, target_freq, r1, r2) ==
    LET p == send_pipeline(n, message, target_freq, r1, r2)
        peer == CHOOSE other \in Nodes : other /= n
    IN  /\ ret' = [Call("send_message") EXCEPT
                      !.message = message,
                      !.ok = p.result.ok, !.error = p.result.error]
        /\ IF p.result.ok
           THEN /\ sweep_t' = [sweep_t EXCEPT ![n] = p.sweep.t]
                /\ weights' = [weights EXCEPT ![n] = p.wt.weights]
                /\ message_buffer' =
                       [message_buffer EXCEPT ![peer] = Append(@, p.v)]
                /\ sent' = [sent EXCEPT ![peer] = Append(@,
                       [from |-> n, message |-> message,
                        target_freq |-> target_freq, epoch |-> epoch[n]])]
           ELSE UNCHANGED <<sweep_t, weights, message_buffer, sent>>
        /\ UNCHANGED <<local_frequency, resonance, epoch, params, probe>>

\* OmegaNode::send_message; r1 and r2 are DoubleKick's random draws.
SendMessage(n, message, target_freq, r1, r2) ==
    LET p == send_pipeline(n, message, target_freq, r1, r2)
    IN  /\ ret' = [Call("send_message") EXCEPT
                      !.message = message,
                      !.ok = p.result.ok, !.error = p.result.error]
        /\ IF p.result.ok
           THEN /\ sweep_t' = [sweep_t EXCEPT ![n] = p.sweep.t]
                /\ weights' = [weights EXCEPT ![n] = p.wt.weights]
                /\ message_buffer' =
                       [message_buffer EXCEPT ![n] = Append(@, p.v)]
                /\ sent' = [sent EXCEPT ![n] = Append(@,
                       [from |-> n, message |-> message,
                        target_freq |-> target_freq, epoch |-> epoch[n]])]
           ELSE UNCHANGED <<sweep_t, weights, message_buffer, sent>>
        /\ UNCHANGED <<local_frequency, resonance, epoch, params, probe>>

\* receive_message after a vector was polled, without the resonance check.
receive_pipeline_unchecked(n, v_received) ==
    LET v == Pfadinvarianz_apply(DefaultPermutations, v_received)
        masked == devectorize(v).value
        masking_params == ephemeral_from_frequency(local_frequency[n], epoch[n])
    IN  [option |-> Some(unmask(masked, masking_params))]

\* Steps of receive_message after a vector was polled: Ok(None) when it is
\* not resonant, else Ok(Some(unmasked bytes)).
receive_pipeline(n, v_received) ==
    LET v == Pfadinvarianz_apply(DefaultPermutations, v_received)
    IN  IF ~is_resonant(n, v)
        THEN [option |-> None]
        ELSE LET masked == devectorize(v).value
                 masking_params == derive_masking_params(n, local_frequency[n])
             IN  [option |-> Some(unmask(masked, masking_params))]

\* OmegaNode::receive_message reporting an empty buffer as a NetworkError.
ReceiveMessageOrError(n) ==
    /\ ret' = [Call("receive_message") EXCEPT
                  !.ok = message_buffer[n] /= <<>>,
                  !.error = IF message_buffer[n] = <<>>
                            THEN "NetworkError" ELSE "none",
                  !.polled = message_buffer[n] /= <<>>]
    /\ message_buffer' =
           [message_buffer EXCEPT ![n] = SubSeq(@, 1, Len(@) - 1)]
    /\ sent' = [sent EXCEPT ![n] = SubSeq(@, 1, Len(@) - 1)]
    /\ UNCHANGED <<local_frequency, resonance, epoch, sweep_t, weights,
                   params, probe>>

\* OmegaNode::receive_message polling the oldest vector (remove(0), not pop).
ReceiveMessageFifo(n) ==
    /\ IF message_buffer[n] = <<>>
       THEN /\ ret' = Call("receive_message")
            /\ UNCHANGED <<message_buffer, sent>>
       ELSE LET r == receive_pipeline(n, Head(message_buffer[n]))
            IN  /\ ret' = [Call("receive_message") EXCEPT
                              !.polled = TRUE,
                              !.some = r.option.some,
                              !.bytes = r.option.bytes]
                /\ message_buffer' = [message_buffer EXCEPT ![n] = Tail(@)]
                /\ sent' = [sent EXCEPT ![n] = Tail(@)]
    /\ UNCHANGED <<local_frequency, resonance, epoch, sweep_t, weights,
                   params, probe>>

\* OmegaNode::receive_message
ReceiveMessage(n) ==
    /\ IF message_buffer[n] = <<>>
       THEN /\ ret' = Call("receive_message")
            /\ UNCHANGED <<message_buffer, sent>>
       ELSE LET k == Len(message_buffer[n])
                r == receive_pipeline(n, message_buffer[n][k])
            IN  /\ ret' = [Call("receive_message") EXCEPT
                              !.polled = TRUE,
                              !.some = r.option.some,
                              !.bytes = r.option.bytes]
                /\ message_buffer' =
                       [message_buffer EXCEPT ![n] = SubSeq(@, 1, k - 1)]
                /\ sent' = [sent EXCEPT ![n] = SubSeq(@, 1, k - 1)]
    /\ UNCHANGED <<local_frequency, resonance, epoch, sweep_t, weights,
                   params, probe>>

\* OmegaNode::transfer_message_to pushing a clone of last() without the pop.
TransferCopyTo(n, other) ==
    /\ n /= other
    /\ ret' = Call("transfer_message_to")
    /\ IF message_buffer[n] /= <<>>
       THEN LET k == Len(message_buffer[n])
            IN  /\ message_buffer' =
                       [message_buffer EXCEPT
                           ![other] = Append(@, message_buffer[n][k])]
                /\ sent' = [sent EXCEPT ![other] = Append(@, sent[n][k])]
       ELSE UNCHANGED <<message_buffer, sent>>
    /\ UNCHANGED <<local_frequency, resonance, epoch, sweep_t, weights,
                   params, probe>>

\* OmegaNode::transfer_message_to taking the oldest vector (remove(0)).
TransferOldestTo(n, other) ==
    /\ n /= other
    /\ ret' = Call("transfer_message_to")
    /\ IF message_buffer[n] /= <<>>
       THEN /\ message_buffer' =
                   [message_buffer EXCEPT
                       ![n] = Tail(@),
                       ![other] = Append(@, Head(message_buffer[n]))]
            /\ sent' =
                   [sent EXCEPT
                       ![n] = Tail(@),
                       ![other] = Append(@, Head(sent[n]))]
       ELSE UNCHANGED <<message_buffer, sent>>
    /\ UNCHANGED <<local_frequency, resonance, epoch, sweep_t, weights,
                   params, probe>>

\* OmegaNode::transfer_message_to
TransferMessageTo(n, other) ==
    /\ n /= other
    /\ ret' = Call("transfer_message_to")
    /\ IF message_buffer[n] /= <<>>
       THEN LET k == Len(message_buffer[n])
            IN  /\ message_buffer' =
                       [message_buffer EXCEPT
                           ![n] = SubSeq(@, 1, k - 1),
                           ![other] = Append(@, message_buffer[n][k])]
                /\ sent' =
                       [sent EXCEPT
                           ![n] = SubSeq(@, 1, k - 1),
                           ![other] = Append(@, sent[n][k])]
       ELSE UNCHANGED <<message_buffer, sent>>
    /\ UNCHANGED <<local_frequency, resonance, epoch, sweep_t, weights,
                   params, probe>>

\* OmegaNode::advance_epoch
AdvanceEpoch(n) ==
    /\ epoch' = [epoch EXCEPT ![n] = @ + 1]
    /\ ret' = Call("advance_epoch")
    /\ UNCHANGED <<local_frequency, resonance, message_buffer, sweep_t,
                   weights, params, sent, probe>>

\* OmegaNode::set_frequency starting a new epoch count for the new frequency.
SetFrequencyNewEpoch(n, omega) ==
    /\ local_frequency' = [local_frequency EXCEPT ![n] = omega]
    /\ resonance' = [resonance EXCEPT ![n] = ResonanceOperator_new(omega)]
    /\ epoch' = [epoch EXCEPT ![n] = 0]
    /\ ret' = Call("set_frequency")
    /\ UNCHANGED <<message_buffer, sweep_t, weights, params, sent, probe>>

\* OmegaNode::set_frequency
SetFrequency(n, omega) ==
    /\ local_frequency' = [local_frequency EXCEPT ![n] = omega]
    /\ resonance' = [resonance EXCEPT ![n] = ResonanceOperator_new(omega)]
    /\ ret' = Call("set_frequency")
    /\ UNCHANGED <<epoch, message_buffer, sweep_t, weights, params, sent,
                   probe>>

\* OmegaNode::omega_transformation
OmegaTransformation(n, v, r1, r2) ==
    LET v1 == DoubleKick_apply(node_doublekick(n), v, r1, r2)
        w == WeightTransfer_transform(node_weight_transfer(n), v1)
        v2 == Pfadinvarianz_apply(DefaultPermutations, w.out)
        s == Sweep_transform(node_sweep(n), v2)
        v4 == ResonanceOperator_apply(resonance[n], s.out)
    IN  /\ ret' = [Call("omega_transformation") EXCEPT !.vec = v4]
        /\ weights' = [weights EXCEPT ![n] = w.wt.weights]
        /\ sweep_t' = [sweep_t EXCEPT ![n] = s.sweep.t]
        /\ UNCHANGED <<local_frequency, resonance, epoch, message_buffer,
                       params, sent, probe>>

---------------------------------------------------------------------------
(* The inputs and bounds of the node specification *)

\* Vectors buffered over all nodes at any time.
MaxInFlight == 1

\* The epoch a node may reach.
MaxEpoch == 1

\* Sweep::transform calls per node.
MaxClock == 1

HelloBob == <<72, 101, 108, 108, 111, 32, 66, 111, 98>>

Messages == {<<65>>, HelloBob}

\* Draws of DoubleKick's generator: pairs of vectors with entries in [-1, 1).
Kicks ==
    {<<<<1920, -1280, 3200, 640, -4480>>, <<640, 5760, -2560, 1280, 1920>>>>,
     <<<<3200, 4480, -5760, 2560, -3200>>, <<1920, 5120, 1920, -5760, 3840>>>>}

OneKick == CHOOSE k \in Kicks : k[1][1] = 1920

\* Inputs of omega_transformation.
OmegaInputs == {<<640, 1280, 1920, 2560, 3200>>}

InFlight == SumSeq(Vec([n \in 1..Cardinality(Nodes) |-> Len(message_buffer[n])]))

\* The nodes that send: in every use of the crate the first node built
\* (alice) sends and the vectors are carried to the other (bob).
Senders == {1}

\* send_message with a message that has bytes
SendBytes ==
    \E n \in Senders, m \in Messages, f \in Freqs, k \in Kicks :
        /\ InFlight < MaxInFlight
        /\ sweep_t[n] < MaxClock
        /\ SendMessage(n, m, f, k[1], k[2])

\* send_message with the empty message
SendEmpty ==
    \E n \in Nodes, f \in Freqs :
        SendMessage(n, <<>>, f, OneKick[1], OneKick[2])

Next ==
    \/ SendBytes
    \/ SendEmpty
    \/ \E n \in Nodes : ReceiveMessage(n)
    \/ \E n \in Nodes, other \in Nodes : TransferMessageTo(n, other)
    \/ \E n \in Nodes : epoch[n] < MaxEpoch /\ AdvanceEpoch(n)
    \/ \E n \in Nodes, f \in Freqs : SetFrequency(n, f)
    \/ \E n \in Nodes, v \in OmegaInputs :
          /\ sweep_t[n] < MaxClock
          /\ OmegaTransformation(n, v, OneKick[1], OneKick[2])

Spec == Init /\ [][Next]_vars

---------------------------------------------------------------------------
(* The masking operator on its own: mask and unmask applied to a message *)

\* The longest message masked; sigma has 32 bytes, so longer ones wrap.
MaxMaskLen == 34

\* Calls made on one message.
MaxMaskCalls == 2

Ramp(n) == [i \in 1..n |-> (37 * i + 11) % 256]

MaskMessages ==
    {Ramp(n) : n \in 0..MaxMaskLen} \cup {HelloBob, <<0>>, <<255>>}

\* MaskingParams values: derived ones and the ones a config stores.
MaskParams ==
    {ephemeral_from_frequency(r.omega, r.epoch) : r \in Sha256Table}
    \cup {DefaultParams.masking, TunedParams.masking}

InitMask ==
    /\ NodesNew(<<NodeConfig(9600, DefaultParams),
                  NodeConfig(9600, DefaultParams)>>)
    /\ \E m \in MaskMessages, p \in MaskParams :
          probe = [fn |-> "mask", message |-> m, p |-> p, out |-> m,
                   calls |-> <<>>]

\* MaskingOperator::mask on the value at hand
MaskCall ==
    /\ Len(probe.calls) < MaxMaskCalls
    /\ probe' = [probe EXCEPT !.out = mask(@, probe.p),
                              !.calls = Append(@, "mask")]
    /\ UNCHANGED nodeVars

\* MaskingOperator::unmask on the value at hand
UnmaskCall ==
    /\ probe.calls /= <<>>
    /\ Len(probe.calls) < MaxMaskCalls
    /\ probe' = [probe EXCEPT !.out = unmask(@, probe.p),
                              !.calls = Append(@, "unmask")]
    /\ UNCHANGED nodeVars

NextMask == MaskCall \/ UnmaskCall

SpecMask == InitMask /\ [][NextMask]_vars

---------------------------------------------------------------------------
(* The Pfadinvarianz operator on its own: apply, and apply again *)

\* Vector components are whole multiples of 1/121, so that two averages
\* over the 11 index lists are exact.
PfadUnit == 11 * 11

\* Components run over 0..MaxComponent.
MaxComponent == 2

\* apply calls made on one vector.
MaxPfadCalls == 2

PfadInputs ==
    {[i \in 1..Dim |-> PfadUnit * f[i]] : f \in [1..Dim -> 0..MaxComponent]}
    \cup {[i \in 1..Dim |-> PfadUnit * i]}

InitPfad ==
    /\ NodesNew(<<NodeConfig(9600, DefaultParams),
                  NodeConfig(9600, DefaultParams)>>)
    /\ \E v \in PfadInputs :
          probe = [fn |-> "pfadinvarianz", input |-> v, prev |-> v,
                   out |-> v, calls |-> 0]

\* Pfadinvarianz::apply on the value at hand
PfadApply ==
    /\ probe.calls < MaxPfadCalls
    /\ probe' = [probe EXCEPT
                    !.prev = probe.out,
                    !.out = Pfadinvarianz_apply(DefaultPermutations, probe.out),
                    !.calls = @ + 1]
    /\ UNCHANGED nodeVars

NextPfad == PfadApply

SpecPfad == InitPfad /\ [][NextPfad]_vars

---------------------------------------------------------------------------
(* The simulated channel: buffers that hold several vectors *)

\* Vectors buffered over both nodes.
MaxBuffered == 3

\* send_message calls of the sending node.
MaxChannelSends == 4

\* Draws of DoubleKick's generator for the vectors that are buffered.
ChannelKicks ==
    Kicks \cup
    {<<<<-2560, 3840, 1280, -5120, 640>>, <<4480, -1920, 3200, 1280, -3840>>>>}

\* Two nodes tuned to 2.5, where some of the vectors are resonant.
InitChannel ==
    /\ NodesNew(<<NodeConfig(16000, DefaultParams),
                  NodeConfig(16000, DefaultParams)>>)
    /\ probe = [fn |-> "none"]

\* send_message of node 1 to 2.5
ChannelSend ==
    \E k \in ChannelKicks :
        /\ InFlight < MaxBuffered
        /\ sweep_t[1] < MaxChannelSends
        /\ SendMessage(1, <<65>>, 16000, k[1], k[2])

NextChannel ==
    \/ ChannelSend
    \/ \E n \in Nodes : ReceiveMessage(n)
    \/ \E n \in Nodes, other \in Nodes : TransferMessageTo(n, other)

SpecChannel == InitChannel /\ [][NextChannel]_vars

---------------------------------------------------------------------------
(* The Sweep operator on its own: transform and reset on one instance *)

\* transform and reset calls made on one instance.
MaxSweepSteps == 3

\* Clock values an instance starts from: the ends, the middle and the
\* wrap of the schedule's period of 100.
SweepClocks == {0, 50, 99, 100, 150}

\* Sweep instances: the default (0.5, 0.1, cosine), the linear and the
\* constant schedule, and a wide gate (beta 1.0).
SweepInstances ==
    {Sweep_new(3200, beta, schedule) :
        beta \in {640, 6400}, schedule \in {"cosine", "linear", "fixed"}}

\* Inputs: the vectors of the sweep tests (the last one scaled by 0.4),
\* means on both sides of the threshold, mixed signs, one component, none.
SweepInputs ==
    {<<6400, 6400, 6400, 6400, 6400>>, <<640, 640, 640, 640, 640>>,
     <<3200, 3200, 3200, 3200, 3200>>, <<2560, 5120, 7680, 10240, 12800>>,
     <<-6400, -3200, 0, 3200, 6400>>, <<12800, -12800, 12800, -12800, 12800>>,
     <<-6400, -6400, -6400, -6400, -6400>>, <<3840, 4480, 3200, 5120, 4160>>,
     <<6400>>, <<>>}

\* The harness value: the instance, the last input and output, the
\* transform calls since construction or the last reset, and all calls.
SweepProbe(sw, t) ==
    [fn |-> "sweep", sw |-> [sw EXCEPT !.t = t], input |-> <<>>, out |-> <<>>,
     calls |-> t, transformed |-> FALSE, steps |-> 0]

InitSweep ==
    /\ NodesNew(<<NodeConfig(9600, DefaultParams),
                  NodeConfig(9600, DefaultParams)>>)
    /\ \E sw \in SweepInstances, t \in SweepClocks : probe = SweepProbe(sw, t)

\* Sweep::transform on the instance
SweepTransform(v) ==
    /\ probe.steps < MaxSweepSteps
    /\ LET r == Sweep_transform(probe.sw, v)
       IN  probe' = [probe EXCEPT !.sw = r.sweep, !.input = v, !.out = r.out,
                                  !.calls = @ + 1, !.transformed = TRUE,
                                  !.steps = @ + 1]
    /\ UNCHANGED nodeVars

\* Sweep::reset on the instance
SweepReset ==
    /\ probe.steps < MaxSweepSteps
    /\ probe' = [probe EXCEPT !.sw = [@ EXCEPT !.t = 0], !.calls = 0,
                              !.transformed = FALSE, !.steps = @ + 1]
    /\ UNCHANGED nodeVars

NextSweep ==
    \/ \E v \in SweepInputs : SweepTransform(v)
    \/ SweepReset

SpecSweep == InitSweep /\ [][NextSweep]_vars

---------------------------------------------------------------------------
(* The WeightTransfer operator on its own: transform and set_target_weights *)

\* transform and set_target_weights calls made on one instance.
MaxWeightSteps == 3

\* A weight map given by its entries (level, weight).
LevelMap(entries) ==
    [l \in {e[1] : e \in entries} |->
        (CHOOSE e \in entries : e[1] = l)[2]]

\* The sum of a weight map's values.
RECURSIVE SumOver(_, _)
SumOver(w, levels) ==
    IF levels = {} THEN 0
    ELSE LET l == CHOOSE x \in levels : TRUE
         IN  w[l] + SumOver(w, levels \ {l})

SumWeights(w) == SumOver(w, DOMAIN w)

\* Starting weights, each summing to 1: the default, one level only, and
\* two levels.
StartWeights ==
    {DefaultLevelWeights,
     LevelMap({<<"Micro", 6400>>}),
     LevelMap({<<"Micro", 3200>>, <<"Meso", 3200>>})}

\* Targets, each summing to 1: those of test_weight_adaptation, the
\* default ones, and all weight on one level.
TargetWeights ==
    {LevelMap({<<"Micro", 5120>>, <<"Meso", 640>>, <<"Macro", 640>>}),
     DefaultLevelWeights,
     LevelMap({<<"Micro", 6400>>}),
     LevelMap({<<"Macro", 6400>>})}

\* gamma: 0, the default 0.3, 1, and 1.5 outside [0, 1].
Gammas == {0, DefaultGamma, Scale, 9600}

\* Inputs of transform: the vector of the tests, and a tenth of it.
WeightInputs ==
    {<<6400, 12800, 19200, 25600, 32000>>, <<640, 1280, 1920, 2560, 3200>>}

InitWeights ==
    /\ NodesNew(<<NodeConfig(9600, DefaultParams),
                  NodeConfig(9600, DefaultParams)>>)
    /\ \E gamma \in Gammas, w \in StartWeights :
          probe = [fn |-> "weight_transfer",
                   wt |-> WeightTransfer_new(gamma, w), start |-> w,
                   before |-> w, input |-> <<>>, out |-> <<>>,
                   last |-> "new", calls |-> 0, steps |-> 0]

\* WeightTransfer::transform on the instance
WeightTransform(v) ==
    /\ probe.steps < MaxWeightSteps
    /\ LET r == WeightTransfer_transform(probe.wt, v)
       IN  probe' = [probe EXCEPT !.wt = r.wt, !.before = probe.wt.weights,
                                  !.input = v, !.out = r.out,
                                  !.last = "transform", !.calls = @ + 1,
                                  !.steps = @ + 1]
    /\ UNCHANGED nodeVars

\* WeightTransfer::set_target_weights on the instance
WeightSetTargets(targets) ==
    /\ probe.steps < MaxWeightSteps
    /\ probe' = [probe EXCEPT !.wt = set_target_weights(@, targets),
                              !.last = "set_target_weights",
                              !.steps = @ + 1]
    /\ UNCHANGED nodeVars

NextWeights ==
    \/ \E v \in WeightInputs : WeightTransform(v)
    \/ \E targets \in TargetWeights : WeightSetTargets(targets)

SpecWeights == InitWeights /\ [][NextWeights]_vars

---------------------------------------------------------------------------
(* The DoubleKick operator on its own: apply on vectors of 1, 2 and 5
   components *)

\* apply calls made on one instance.
MaxKickCalls == 2

\* (alpha1, alpha2): the default (0.05, -0.03), the pair of
\* test_doublekick_perturbation (0.1, -0.05), and pairs with one zero.
KickAlphas == {<<320, -192>>, <<640, -320>>, <<0, 320>>, <<320, 0>>}

\* Inputs of apply: the vector of the tests, zeros, a mixed one, and
\* vectors of one and of two components.
KickInputs ==
    {<<6400, 12800, 19200, 25600, 32000>>, <<0, 0, 0, 0, 0>>,
     <<-3200, 640, 0, 5120, -1280>>,
     <<6400>>, <<-3200>>, <<6400, -3200>>}

\* Draws of the generator for a vector of dim components, each component
\* in [-1, 1).
KickDraws(dim) ==
    CASE dim = 5 -> ChannelKicks
      [] dim = 2 -> {<<<<3200, 1280>>, <<-640, 4480>>>>,
                     <<<<-5120, 2560>>, <<1920, 1920>>>>,
                     <<<<3200, 0>>, <<-1920, 0>>>>}
      [] dim = 1 -> {<<<<x>>, <<y>>>> : x \in {3200, -1920}, y \in {4480, -640}}

InitKick ==
    /\ NodesNew(<<NodeConfig(9600, DefaultParams),
                  NodeConfig(9600, DefaultParams)>>)
    /\ \E a \in KickAlphas :
          probe = [fn |-> "doublekick", dk |-> DoubleKick_new(a[1], a[2]),
                   v |-> <<>>, r1 |-> <<>>, r2 |-> <<>>,
                   u1 |-> <<>>, u2 |-> <<>>, out |-> <<>>, calls |-> 0]

\* DoubleKick::apply on v, with the basis its generator call returned
KickApply(v, r1, r2) ==
    /\ probe.calls < MaxKickCalls
    /\ LET basis == generate_orthonormal_basis(r1, r2)
       IN  probe' = [probe EXCEPT
                        !.v = v, !.r1 = r1, !.r2 = r2,
                        !.u1 = basis[1], !.u2 = basis[2],
                        !.out = DoubleKick_apply(probe.dk, v, r1, r2),
                        !.calls = @ + 1]
    /\ UNCHANGED nodeVars

NextKick ==
    \E v \in KickInputs : \E k \in KickDraws(Len(v)) : KickApply(v, k[1], k[2])

SpecKick == InitKick /\ [][NextKick]_vars

---------------------------------------------------------------------------
(* The codec on its own: vectorize, then devectorize *)

\* The longest message encoded; 5 bytes fit a vector.
MaxCodecLen == 7

\* Messages: every byte value at every place of a 5-byte message, and
\* messages of 0..MaxCodecLen bytes.
CodecMessages ==
    {[i \in 1..Dim |-> IF i = k THEN b ELSE (37 * i + 11) % 256] :
        k \in 1..Dim, b \in Byte}
    \cup {Ramp(n) : n \in 0..MaxCodecLen}
    \cup {HelloBob}

InitCodec ==
    /\ NodesNew(<<NodeConfig(9600, DefaultParams),
                  NodeConfig(9600, DefaultParams)>>)
    /\ \E m \in CodecMessages :
          probe = [fn |-> "codec", message |-> m, vec |-> Ok(<<>>),
                   out |-> <<>>, stage |-> "new"]

\* utils::vectorize on the message
VectorizeCall ==
    /\ probe.stage = "new"
    /\ probe' = [probe EXCEPT !.vec = vectorize(probe.message),
                              !.stage = "vectorized"]
    /\ UNCHANGED nodeVars

\* utils::devectorize on the vector vectorize returned
DevectorizeCall ==
    /\ probe.stage = "vectorized"
    /\ probe.vec.ok
    /\ probe' = [probe EXCEPT !.out = devectorize(probe.vec.value).value,
                              !.stage = "devectorized"]
    /\ UNCHANGED nodeVars

NextCodec == VectorizeCall \/ DevectorizeCall

SpecCodec == InitCodec /\ [][NextCodec]_vars

---------------------------------------------------------------------------
(* The Sweep clock: one Sweep instance on its own, next to two nodes whose
   calls tick, or do not tick, the Sweep each of them owns *)

\* Sweep::transform calls inside node 1.
MaxNodeClock == 2

\* Inputs of transform with a mean at the threshold, where the gate is
\* half open and follows every change of the threshold.
ClockInputs == {<<3200, 3200, 3200, 3200, 3200>>}

InitClock ==
    /\ NodesNew(<<NodeConfig(9600, DefaultParams),
                  NodeConfig(9600, DefaultParams)>>)
    /\ probe = SweepProbe(Sweep_new(3200, 640, "linear"), 0)

\* send_message of node 1, with bytes
ClockSend ==
    /\ InFlight < MaxInFlight
    /\ sweep_t[1] < MaxNodeClock
    /\ SendMessage(1, <<65>>, 9600, OneKick[1], OneKick[2])

\* send_message of node 1, with the empty message
ClockSendEmpty == SendMessage(1, <<>>, 9600, OneKick[1], OneKick[2])

\* omega_transformation of node 1
ClockOmega ==
    /\ sweep_t[1] < MaxNodeClock
    /\ \E v \in OmegaInputs :
          OmegaTransformation(1, v, OneKick[1], OneKick[2])

NextClock ==
    \/ \E v \in ClockInputs : SweepTransform(v)
    \/ SweepReset
    \/ ClockSend
    \/ ClockSendEmpty
    \/ ClockOmega
    \/ \E n \in Nodes : ReceiveMessage(n)
    \/ \E n \in Nodes, other \in Nodes : TransferMessageTo(n, other)
    \/ epoch[2] < MaxEpoch /\ AdvanceEpoch(2)
    \/ SetFrequency(2, 16000)

SpecClock == InitClock /\ [][NextClock]_vars

---------------------------------------------------------------------------
(* devectorize on its own: any vector, not only those vectorize returns *)

\* The longest vector decoded.
MaxDevecLen == 7

\* The spacing of the one-component inputs, in 1 / Scale.
DevecStep == 5

\* Vectors: one component running over [-1.1, 1.1] in steps of DevecStep
\* (values between two byte levels and values outside [-1, 1) included),
\* and vectors of 0..MaxDevecLen components.
DevecInputs ==
    {<<x * DevecStep>> : x \in (-(7040 \div DevecStep))..(7040 \div DevecStep)}
    \cup {[i \in 1..n |-> 1111 * i - 3333] : n \in 0..MaxDevecLen}

InitDevec ==
    /\ NodesNew(<<NodeConfig(9600, DefaultParams),
                  NodeConfig(9600, DefaultParams)>>)
    /\ \E v \in DevecInputs :
          probe = [fn |-> "devectorize", v |-> v, out |-> <<>>, called |-> FALSE]

\* utils::devectorize on the vector
DevecCall ==
    /\ ~probe.called
    /\ probe' = [probe EXCEPT !.out = devectorize(probe.v).value,
                              !.called = TRUE]
    /\ UNCHANGED nodeVars

NextDevec == DevecCall

SpecDevec == InitDevec /\ [][NextDevec]_vars

---------------------------------------------------------------------------
(* Pfadinvarianz::new for any dimension, and apply on the instance built *)

\* The largest dimension an instance is built for.
MaxPfadDim == 6

\* apply calls made on one instance.
MaxNewCalls == 2

\* Vectors of the instance's dimension with components 0 or 1; for the
\* instance of dimension 0, which has no index list, vectors of any length.
NewInputs(d) ==
    IF d = 0 THEN {<<>>, <<6400>>, <<6400, -3200, 1280>>}
    ELSE {[i \in 1..d |-> Scale * f[i]] : f \in [1..d -> {0, 1}]}

\* Pfadinvarianz::new(d)
InitNew ==
    /\ NodesNew(<<NodeConfig(9600, DefaultParams),
                  NodeConfig(9600, DefaultParams)>>)
    /\ \E d \in 0..MaxPfadDim :
          \E v \in NewInputs(d) :
              probe = [fn |-> "pfadinvarianz_new", d |-> d,
                       permutations |-> generate_permutations(d),
                       input |-> v, out |-> v, calls |-> 0]

\* Pfadinvarianz::apply(&self, v) on the value at hand
NewApply ==
    /\ probe.calls < MaxNewCalls
    /\ probe' = [probe EXCEPT
                    !.input = probe.out,
                    !.out = Pfadinvarianz_apply(probe.permutations, probe.out),
                    !.calls = @ + 1]
    /\ UNCHANGED nodeVars

NextNew == NewApply

SpecNew == InitNew /\ [][NextNew]_vars

---------------------------------------------------------------------------
(* compute_dominant_frequency on its own: vectors of any length *)

\* The lengths of the vectors transformed; Cos4 covers the lengths 1..6.
DominantLengths == {0, 1, 2, 3, 4, 5, 6}

\* Vectors: every vector of these lengths with components -0.1, 0 or 0.1
\* (the zero and the constant vectors among them), and 5-vectors with a
\* peak at bin 1, at bin 2, and a ramp.
DominantInputs ==
    UNION {{[i \in 1..n |-> 640 * f[i]] : f \in [1..n -> {-1, 0, 1}]} :
              n \in DominantLengths}
    \cup {<<6400, 1978, -5178, -5178, 1978>>, <<6400, -5178, 1978, 1978, -5178>>,
          <<6400, 0, -6400, 0, 6400>>, <<640, 1280, 1920, 2560, 3200>>}

InitDominant ==
    /\ NodesNew(<<NodeConfig(9600, DefaultParams),
                  NodeConfig(9600, DefaultParams)>>)
    /\ \E v \in DominantInputs :
          probe = [fn |-> "compute_dominant_frequency", v |-> v, out |-> 0,
                   called |-> FALSE]

\* ResonanceOperator::compute_dominant_frequency on the vector
DominantCall ==
    /\ ~probe.called
    /\ probe' = [probe EXCEPT !.out = compute_dominant_frequency(probe.v),
                              !.called = TRUE]
    /\ UNCHANGED nodeVars

NextDominant == DominantCall

SpecDominant == InitDominant /\ [][NextDominant]_vars

---------------------------------------------------------------------------
(* The resonance band: nodes on and off the frequencies a 5-vector has *)

\* Vectors buffered over both nodes.
MaxBandBuffered == 2

\* send_message calls of the sending node.
MaxBandSends == 2

\* Two of the pairs nodes are built from: a node at 1.0 (the default
\* frequency) with one at 2.5 (the example's), and with one at 1.5 whose
\* band is 0.3 wide.
BandConfigs ==
    {<<NodeConfig(6400, DefaultParams), NodeConfig(16000, DefaultParams)>>,
     <<NodeConfig(6400, DefaultParams), NodeConfig(9600, TunedParams)>>}

InitBand ==
    /\ \E c \in BandConfigs : NodesNew(c)
    /\ probe = [fn |-> "none"]

\* send_message of node 1 to 2.5
BandSend ==
    \E k \in ChannelKicks :
        /\ InFlight < MaxBandBuffered
        /\ sweep_t[1] < MaxBandSends
        /\ SendMessage(1, <<65>>, 16000, k[1], k[2])

NextBand ==
    \/ BandSend
    \/ \E n \in Nodes : ReceiveMessage(n)
    \/ \E n \in Nodes, other \in Nodes : TransferMessageTo(n, other)
    \/ \E n \in Nodes, f \in Freqs : SetFrequency(n, f)

SpecBand == InitBand /\ [][NextBand]_vars

---------------------------------------------------------------------------
(* The relay: node 1 sends, every vector is transferred, node 2 receives *)

\* send_message calls of node 1.
MaxRelaySends == 3

\* The bytes of the j-th message sent: "A", "B", "C", ...
RelayMessage(j) == <<64 + j>>

InitRelay ==
    /\ NodesNew(<<NodeConfig(16000, DefaultParams),
                  NodeConfig(16000, DefaultParams)>>)
    /\ probe = [fn |-> "none"]

\* send_message of node 1, while everything it sent is still in its buffer
RelaySend ==
    \E k \in ChannelKicks :
        /\ sweep_t[1] < MaxRelaySends
        /\ Len(message_buffer[1]) = sweep_t[1]
        /\ message_buffer[2] = <<>>
        /\ SendMessage(1, RelayMessage(sweep_t[1] + 1), 16000, k[1], k[2])

\* transfer_message_to from node 1 into node 2, before node 2 receives
RelayTransfer ==
    /\ message_buffer[1] /= <<>>
    /\ Len(message_buffer[1]) + Len(message_buffer[2]) = sweep_t[1]
    /\ TransferMessageTo(1, 2)

\* receive_message of node 2, once node 1 has nothing left to transfer
RelayReceive ==
    /\ message_buffer[1] = <<>>
    /\ message_buffer[2] /= <<>>
    /\ ReceiveMessage(2)

NextRelay == RelaySend \/ RelayTransfer \/ RelayReceive

SpecRelay == InitRelay /\ [][NextRelay]_vars

---------------------------------------------------------------------------
(* Messages of several lengths sent to a node that can receive them *)

\* Vectors buffered over both nodes.
MaxLengthBuffered == 2

\* send_message calls of node 1.
MaxLengthSends == 3

\* "Hello", the first five bytes of the example's message.
Hello == SubSeq(HelloBob, 1, 5)

\* The message of the j-th send: 9 bytes, then 5, then 1, and again.
LengthMessage(j) ==
    CASE j % 3 = 1 -> HelloBob
      [] j % 3 = 2 -> Hello
      [] OTHER -> <<65>>

\* send_message of node 1 to 2.5
LengthSend ==
    \E k \in ChannelKicks :
        /\ InFlight < MaxLengthBuffered
        /\ sweep_t[1] < MaxLengthSends
        /\ SendMessage(1, LengthMessage(sweep_t[1] + 1), 16000, k[1], k[2])

NextLength ==
    \/ LengthSend
    \/ \E n \in Nodes : ReceiveMessage(n)
    \/ \E n \in Nodes, other \in Nodes : TransferMessageTo(n, other)

SpecLength == InitChannel /\ [][NextLength]_vars

---------------------------------------------------------------------------
(* Both nodes send: whose buffer a send fills and a receive empties *)

\* Vectors buffered over both nodes.
MaxOwnBuffered == 3

\* send_message calls of one node.
MaxOwnSends == 2

\* The message node n sends: "A" for node 1, "B" for node 2.
OwnMessage(n) == <<64 + n>>

\* send_message of node n to 2.5
OwnSend(n) ==
    \E k \in ChannelKicks :
        /\ InFlight < MaxOwnBuffered
        /\ sweep_t[n] < MaxOwnSends
        /\ SendMessage(n, OwnMessage(n), 16000, k[1], k[2])

NextOwn ==
    \/ \E n \in Nodes : OwnSend(n)
    \/ \E n \in Nodes : ReceiveMessage(n)
    \/ \E n \in Nodes, other \in Nodes : TransferMessageTo(n, other)

SpecOwn == InitChannel /\ [][NextOwn]_vars

---------------------------------------------------------------------------
(* Claims *)

\* C1: masking is an involution.  Whatever the message (empty, short, or
\* longer than the 32 bytes of sigma) and whatever the parameters, every
\* call of mask or unmask returns as many bytes as it was given, and after
\* an even number of calls (mask then mask, or mask then unmask) the bytes
\* are the message again.
C1_MaskInvolution ==
    probe.fn = "mask" =>
        /\ Len(probe.out) = Len(probe.message)
        /\ Len(probe.calls) % 2 = 0 => probe.out = probe.message

\* C1 happens: a message longer than sigma was masked to something else and
\* then unmasked.
C1_Witness ==
    /\ probe.fn = "mask"
    /\ Len(probe.message) > 32
    /\ probe.calls = <<"mask", "unmask">>
    /\ mask(probe.message, probe.p) /= probe.message
    /\ probe.out = probe.message

\* C2: the default Pfadinvarianz operator is idempotent: a second apply
\* returns what the first apply returned, in every component.
C2_PfadIdempotent ==
    (probe.fn = "pfadinvarianz" /\ probe.calls >= 2) => probe.out = probe.prev

---------------------------------------------------------------------------
(* Claims about the node *)

Last(s) == s[Len(s)]

\* The vector on top of n's buffer was sent by the other node, with bytes,
\* to frequency f, and that node is tuned to omega.
CarriedFrom(n, f, omega) ==
    /\ message_buffer[n] /= <<>>
    /\ Last(sent[n]).from /= n
    /\ Last(sent[n]).message /= <<>>
    /\ Last(sent[n]).target_freq = f
    /\ local_frequency[Last(sent[n]).from] = omega

\* C3: a receiver built like the sender gets the message.  When both nodes
\* have the same omega (1.5 or 1.0), default parameters and epoch 0, and
\* the sender sent a message with bytes to that omega and the vector was
\* carried over, the receiver's receive_message returns Some.
C3_SameConfigReceives ==
    [][\A n \in Nodes :
        (/\ \E f \in {6400, 9600} :
               CarriedFrom(n, f, f) /\ local_frequency[n] = f
         /\ \A k \in Nodes : params[k] = DefaultParams /\ epoch[k] = 0
         /\ Last(sent[n]).epoch = 0
         /\ ReceiveMessage(n))
        => ret'.ok /\ ret'.some]_vars

\* C4: "Hello Bob" arrives.  With both nodes at 1.5, default parameters and
\* equal epochs, after the sender sent "Hello Bob" to 1.5 and the vector
\* was carried over, receive_message returns Some of exactly these bytes.
C4_HelloBobRoundTrip ==
    [][\A n \in Nodes :
        (/\ CarriedFrom(n, 9600, 9600) /\ local_frequency[n] = 9600
         /\ Last(sent[n]).message = HelloBob
         /\ \A k \in Nodes :
               params[k] = DefaultParams /\ epoch[k] = Last(sent[n]).epoch
         /\ ReceiveMessage(n))
        => ret'.ok /\ ret'.some /\ ret'.bytes = HelloBob]_vars

\* C5: a message for 1.0 does not reach a node at 2.5.  When a node at 1.0
\* sent to 1.0 and the vector was carried to a node at 2.5 whose epsilon
\* is 0.1, that node's receive_message returns None.
C5_OffFrequencyGetsNone ==
    [][\A n \in Nodes :
        (/\ CarriedFrom(n, 6400, 6400) /\ local_frequency[n] = 16000
         /\ params[n].resonance.epsilon = 640
         /\ ReceiveMessage(n))
        => ret'.ok /\ ~ret'.some]_vars

\* C6: receive_message on an empty buffer returns Ok(None), not an error,
\* and leaves the buffers, epochs, local frequencies, Sweep clocks and
\* WeightTransfer weights as they were.
C6_EmptyReceive ==
    [][(ret'.op = "receive_message" /\ ~ret'.polled)
        => /\ ret'.ok /\ ~ret'.some
           /\ UNCHANGED <<message_buffer, epoch, local_frequency, sweep_t,
                          weights>>]_vars

\* C6 happens: a receive_message found its buffer empty while the other
\* node held a vector and a Sweep clock had advanced.
C6_Witness ==
    /\ ret.op = "receive_message" /\ ~ret.polled
    /\ ret.ok /\ ~ret.some
    /\ InFlight > 0
    /\ \E n \in Nodes : sweep_t[n] > 0

\* C7: a vector that is not resonant is dropped.  When receive_message pops
\* a vector from node n's buffer and the vector is not resonant with n's
\* local frequency, it returns Ok(None), the node's buffer is its old buffer
\* without the top element, and no other buffer changes, so the vector is
\* in no buffer afterwards.
C7_NonResonantConsumed ==
    [][\A n \in Nodes :
        (/\ ret'.op = "receive_message" /\ ret'.polled
         /\ message_buffer'[n] /= message_buffer[n]
         /\ ~is_resonant(n, Pfadinvarianz_apply(DefaultPermutations,
                                                Last(message_buffer[n]))))
        => /\ ret'.ok /\ ~ret'.some
           /\ message_buffer' =
                  [message_buffer EXCEPT
                      ![n] = SubSeq(@, 1, Len(@) - 1)]]_vars

\* C7 happens: a receive_message popped a vector and returned Ok(None),
\* and no buffer holds a vector any more.
C7_Witness ==
    /\ ret.op = "receive_message" /\ ret.polled
    /\ ret.ok /\ ~ret.some
    /\ InFlight = 0

\* C8: send_message fails exactly when the message is empty, and then with
\* VectorizationError; with bytes it returns Ok(()) for every target.
C8_SendFailsOnEmpty ==
    ret.op = "send_message" =>
        /\ ret.ok <=> ret.message /= <<>>
        /\ ~ret.ok => ret.error = "VectorizationError"
        /\ ret.ok => ret.error = "none"

\* C8 happens: a node that had sent before and moved to epoch 1 was given
\* the empty message and returned VectorizationError.
C8_Witness ==
    /\ ret.op = "send_message" /\ ret.message = <<>>
    /\ ~ret.ok /\ ret.error = "VectorizationError"
    /\ \E n \in Senders : sweep_t[n] > 0 /\ epoch[n] > 0

\* C9: masking parameters depend on (frequency, epoch) alone.  In every
\* state, whatever was sent or received before and whatever parameters the
\* configs store, two nodes at the same epoch derive the same theta and
\* sigma for the same frequency, and these are the ones derived from that
\* frequency and epoch.
C9_DerivedParams ==
    \A a \in Nodes, b \in Nodes, f \in Freqs :
        /\ derive_masking_params(a, f) = ephemeral_from_frequency(f, epoch[a])
        /\ epoch[a] = epoch[b] =>
               /\ derive_masking_params(a, f).theta
                      = derive_masking_params(b, f).theta
               /\ derive_masking_params(a, f).sigma
                      = derive_masking_params(b, f).sigma

\* C9 happens: two nodes whose configs store different masking parameters
\* have both moved to epoch 1, and a vector sent by one was polled by the
\* other.
C9_Witness ==
    /\ params[1].masking /= params[2].masking
    /\ epoch[1] = 1 /\ epoch[2] = 1
    /\ ret.op = "receive_message" /\ ret.polled
    /\ sweep_t[1] > 0
    /\ derive_masking_params(2, local_frequency[2]) /= params[2].masking

\* C10: the epoch starts at 0 and only advance_epoch changes it, by one.
\* Every other call leaves every node's epoch as it was, so no epoch ever
\* decreases.
C10_EpochOnlyAdvances ==
    /\ \A n \in Nodes : epoch[n] = 0
    /\ [][\A n \in Nodes :
            /\ epoch'[n] /= epoch[n] =>
                   ret'.op = "advance_epoch" /\ epoch'[n] = epoch[n] + 1
            /\ ret'.op /= "advance_epoch" => epoch'[n] = epoch[n]]_vars

\* C10 happens: a node reached epoch 1 by advance_epoch.
C10_Witness ==
    /\ ret.op = "advance_epoch"
    /\ \E n \in Nodes : epoch[n] = 1

\* C11: an epoch mismatch breaks unmasking.  For every buffered vector whose
\* message was masked at epoch e for the frequency of the node that holds
\* it, when that node's epoch differs from e, the parameters its
\* receive_message derives have another sigma than the sender's, and
\* unmasking the sender's masked bytes with them does not give the message.
C11_EpochMismatch ==
    \A n \in Nodes : \A i \in 1..Len(sent[n]) :
        LET s == sent[n][i]
            used == ephemeral_from_frequency(s.target_freq, s.epoch)
            derived == derive_masking_params(n, local_frequency[n])
        IN  (/\ s.epoch /= epoch[n]
             /\ s.target_freq = local_frequency[n]
             /\ s.message /= <<>>)
            => /\ derived.sigma /= used.sigma
               /\ unmask(mask(s.message, used), derived) /= s.message

\* C11 happens: node 1 sent "Hello Bob" at epoch 0 to node 2's frequency,
\* the vector was carried to node 2, and node 2 alone advanced its epoch.
C11_Witness ==
    /\ ret.op = "advance_epoch"
    /\ epoch[1] = 0 /\ epoch[2] = 1
    /\ message_buffer[2] /= <<>>
    /\ Last(sent[2]).from = 1 /\ Last(sent[2]).epoch = 0
    /\ Last(sent[2]).target_freq = local_frequency[2]
    /\ Last(sent[2]).message = HelloBob

\* The vectors in some buffer, and the copies of x over both buffers.
Buffered == UNION {{message_buffer[n][i] : i \in 1..Len(message_buffer[n])} : n \in Nodes}

Copies(x) ==
    SumSeq(Vec([n \in 1..Cardinality(Nodes) |->
        Cardinality({i \in 1..Len(message_buffer[n]) : message_buffer[n][i] = x})]))

C13_LifoChannel ==
    [][\A n \in Nodes :
        /\ Len(message_buffer'[n]) > Len(message_buffer[n])
           => /\ Len(message_buffer'[n]) = Len(message_buffer[n]) + 1
              /\ SubSeq(message_buffer'[n], 1, Len(message_buffer[n]))
                     = message_buffer[n]
        /\ (message_buffer[n] /= <<>> /\ ReceiveMessage(n))
           => /\ ret'.polled
              /\ message_buffer' =
                     [message_buffer EXCEPT ![n] = SubSeq(@, 1, Len(@) - 1)]
              /\ LET r == receive_pipeline(n, Last(message_buffer[n]))
                 IN  /\ ret'.some = r.option.some
                     /\ ret'.bytes = r.option.bytes]_vars

\* C13 happens: a receive_message returned Some while older vectors, two
\* different ones at one node, stayed buffered.
C13_Witness ==
    /\ ret.op = "receive_message" /\ ret.polled /\ ret.some
    /\ \E n \in Nodes :
          /\ Len(message_buffer[n]) = 2
          /\ message_buffer[n][1] /= message_buffer[n][2]

\* max_j |v_j|, 0 for the empty vector
MaxAbs(v) ==
    IF v = <<>> THEN 0
    ELSE CHOOSE m \in {Abs(v[i]) : i \in 1..Len(v)} :
             \A j \in 1..Len(v) : m >= Abs(v[j])

\* C14: Sweep is non-expansive.  Whatever the input, the schedule and the
\* clock, the gate the call used lies in [0, 1], every component of
\* transform(v) is at most max_j |v_j| in absolute value, and the Euclidean
\* norm of transform(v) is at most that of v.
C14_SweepNonExpansive ==
    (probe.fn = "sweep" /\ probe.transformed) =>
        LET before == [probe.sw EXCEPT !.t = @ - 1]
            gate == sigmoid_gate(before, compute_mean(probe.input),
                                 compute_threshold(before, before.t))
        IN  /\ 0 <= gate /\ gate <= Scale
            /\ Len(probe.out) = Len(probe.input)
            /\ \A i \in 1..Len(probe.out) :
                   Abs(probe.out[i]) <= MaxAbs(probe.input)
            /\ Norm(probe.out) <= Norm(probe.input)

\* C14 happens: at clock 150 a vector with a mean above the threshold and
\* components of both sizes went through an open gate and came out no
\* larger, and not as zeros.
C14_Witness ==
    /\ probe.fn = "sweep" /\ probe.transformed
    /\ probe.sw.t = 151
    /\ probe.input = <<2560, 5120, 7680, 10240, 12800>>
    /\ probe.out /= Zeros(5)
    /\ MaxAbs(probe.out) <= 12800

\* C15: the weights keep summing to 1.  For an instance whose starting
\* weights sum to 1 and whose targets sum to 1, after any transform calls,
\* also after set_target_weights replaced the targets, the sum of the
\* current weights is within 0.01 of 1.
C15_WeightsSumToOne ==
    (/\ probe.fn = "weight_transfer"
     /\ SumWeights(probe.start) = Scale
     /\ SumWeights(probe.wt.target_weights) = Scale)
    => Abs(SumWeights(probe.wt.weights) - Scale) < 64

\* The target transform reads for level l: 0 when the targets lack l.
TargetOf(wt, l) ==
    IF l \in DOMAIN wt.target_weights THEN wt.target_weights[l] ELSE 0

KickSlack == Scale \div 800

KickNorms(r1, r2) ==
    LET u1 == Normalized(r1)
    IN  <<Norm(r1), Norm(VecSub(r2, VecScale(u1, Dot(u1, r2))))>>

C17_CodecRoundTrip ==
    /\ (probe.fn = "codec" /\ probe.stage /= "new")
           => (probe.vec.ok <=> probe.message /= <<>>)
    /\ (probe.fn = "codec" /\ probe.stage = "devectorized")
           => /\ Len(probe.out) = 5
              /\ \A i \in 1..5 :
                     probe.out[i] = IF i <= Len(probe.message)
                                    THEN probe.message[i] ELSE 0
              /\ Len(probe.message) = 5 => probe.out = probe.message

\* C17 happens: a 5-byte message holding the byte 255 went through both
\* functions and came back.
C17_Witness ==
    /\ probe.fn = "codec" /\ probe.stage = "devectorized"
    /\ Len(probe.message) = 5
    /\ probe.message[3] = 255
    /\ probe.vec.value[3] = Scale - 50
    /\ probe.out = probe.message

\* C18: a failing send_message commits nothing.  After a send_message that
\* returned an error, every node's buffer, epoch, local frequency, Sweep
\* clock and WeightTransfer weights are what they were before the call.
C18_FailedSendCommitsNothing ==
    [][(ret'.op = "send_message" /\ ~ret'.ok)
        => UNCHANGED <<message_buffer, epoch, local_frequency, sweep_t,
                       weights>>]_vars

\* C18 happens: a send_message failed on a node that had sent before and
\* whose vector is still buffered.
C18_Witness ==
    /\ ret.op = "send_message" /\ ~ret.ok
    /\ InFlight > 0
    /\ \E n \in Senders : sweep_t[n] > 0 /\ message_buffer[n] /= <<>>

\* C19: the Sweep clock counts transform calls.  On a Sweep instance, t is
\* the number of transform calls since construction or the last reset, and
\* the call number k (from 0) gated with threshold(k): its output is the
\* input times the gate for the threshold of the clock before the
\* increment.  In a node, a successful send_message and an
\* omega_transformation advance that node's clock by exactly 1 and no
\* other clock; receive_message, transfer_message_to, advance_epoch and
\* set_frequency leave every clock as it was.  (A step that leaves the
\* instance alone is a call on a node.)
C19_ClockCounts ==
    /\ [](probe.fn = "sweep" =>
            /\ probe.sw.t = probe.calls
            /\ probe.transformed =>
                   LET k == probe.calls - 1
                       gate == sigmoid_gate(probe.sw, compute_mean(probe.input),
                                            compute_threshold(probe.sw, k))
                   IN  probe.out = VecScale(probe.input, gate))
    /\ [][probe' = probe =>
            /\ (ret'.op = "send_message" /\ ret'.ok) =>
                  \E n \in Nodes :
                      /\ Len(message_buffer'[n]) = Len(message_buffer[n]) + 1
                      /\ sweep_t' = [sweep_t EXCEPT ![n] = @ + 1]
            /\ ret'.op = "omega_transformation" =>
                  \E n \in Nodes : sweep_t' = [sweep_t EXCEPT ![n] = @ + 1]
            /\ ret'.op \in {"receive_message", "transfer_message_to",
                            "advance_epoch", "set_frequency"} =>
                  sweep_t' = sweep_t]_vars

\* C19 happens: the instance was reset and then transformed twice, so
\* that its second call gated with threshold(1), and node 1's clock is at
\* 2 after a send_message and an omega_transformation.
C19_Witness ==
    /\ probe.fn = "sweep" /\ probe.transformed
    /\ probe.calls = 2 /\ probe.steps = 3
    /\ probe.out /= VecScale(probe.input,
           sigmoid_gate(probe.sw, compute_mean(probe.input),
                        compute_threshold(probe.sw, 0)))
    /\ sweep_t[1] = 2
    /\ ret.op = "omega_transformation"
    /\ InFlight = 1

\* f64::round of x * 128 + 128 for the fixed-point x, clamped to 0..255.
RoundedByte(x) == Min(Max(RoundDiv(x * 128 + 128 * Scale, Scale), 0), 255)

\* C21: devectorize rounds to the nearest byte.  devectorize returns one
\* byte per component of the vector, and for every component x the byte is
\* clamp(round(x * 128 + 128), 0, 255): the scaled value is rounded to the
\* nearest integer before it is clamped.
C21_DevectorizeRounds ==
    (probe.fn = "devectorize" /\ probe.called)
        => /\ Len(probe.out) = Len(probe.v)
           /\ \A i \in 1..Len(probe.v) : probe.out[i] = RoundedByte(probe.v[i])

\* Vectors put to the resonance test: cos(2 pi i / 5) and cos(4 pi i / 5)
\* (peaks at bins 1 and 2), the vector of test_resonance_reject, the input
\* of test_omega_transformation and the zero vector.
ResonanceInputs ==
    {<<6400, 1978, -5178, -5178, 1978>>, <<6400, -5178, 1978, 1978, -5178>>,
     <<6400, 0, -6400, 0, 6400>>, <<640, 1280, 1920, 2560, 3200>>,
     <<0, 0, 0, 0, 0>>}

\* C22: a node applies one resonance predicate.  At every node, whatever
\* its NodeConfig and whatever set_frequency calls were made, the test of
\* receive_message (|dominant(v) - local_frequency| < params.resonance.epsilon)
\* and the node's ResonanceOperator (is_resonant, and apply, which passes v
\* or returns zeros) give the same verdict on every vector: the test
\* vectors and the vectors buffered at the time.
C22_OneResonancePredicate ==
    \A n \in Nodes, v \in ResonanceInputs \cup Buffered :
        /\ is_resonant(n, v) <=> ResonanceOperator_is_resonant(resonance[n], v)
        /\ ResonanceOperator_apply(resonance[n], v) =
               IF is_resonant(n, v) THEN v ELSE Zeros(Len(v))

\* An index list of dimension d that is a bijection on 0..d-1.
IsBijection(perm, d) ==
    /\ Len(perm) = d
    /\ {perm[i] : i \in 1..d} = 0..(d - 1)

\* The index lists C23 names, for dimension d >= 3, as 0-based lists.
NamedLists(d) ==
    {[i \in 1..d |-> i - 1]}
    \cup {[i \in 1..d |-> (i - 1 + s) % d] : s \in 1..(d - 1)}
    \cup {[i \in 1..d |-> d - i]}
    \cup {[i \in 1..d |-> IF i = k THEN k ELSE IF i = k + 1 THEN k - 1 ELSE i - 1] :
             k \in 1..(d - 1)}
    \cup {[i \in 1..d |-> IF i <= 3 THEN i % 3 ELSE i - 1]}

LowestMaxBin(v, i) ==
    LET r == Autocorr(v)
    IN  /\ \A k \in 1..(Len(v) - 1) : ~Greater(norm_sqr(r, k), norm_sqr(r, i))
        /\ \A k \in 1..(i - 1) : Greater(norm_sqr(r, i), norm_sqr(r, k))

\* The bins among 1..N-1 whose magnitude is above zero.
NonZeroBins(v) ==
    {k \in 1..(Len(v) - 1) :
        LET x == norm_sqr(Autocorr(v), k) IN PositiveQ5(x.a, x.b)}

GridFrequencies == {RoundDiv(i * TwoPiFx, Dim) : i \in 0..(Dim - 1)}

\* Node n is farther than its epsilon from all of them.
OffGrid(n) ==
    \A f \in GridFrequencies :
        Abs(f - local_frequency[n]) >= params[n].resonance.epsilon

C27_FiveBytes ==
    /\ [](ret.op = "receive_message" /\ ret.some => Len(ret.bytes) = 5)
    /\ [][\A n \in Nodes :
            (ret'.op = "receive_message" /\ ret'.some
                /\ Len(message_buffer'[n]) < Len(message_buffer[n]))
            => /\ Len(Last(sent[n]).message) \in {1, 5, 9}
               /\ Len(ret'.bytes) = 5]_vars

\* C27 happens: the only vector sent so far carried the 9-byte message and
\* receive_message returned Some for it.
C27_Witness ==
    /\ ret.op = "receive_message" /\ ret.some
    /\ sweep_t[1] = 1
    /\ Len(LengthMessage(1)) = 9
    /\ Len(ret.bytes) = 5

\* C28: a send fills the sender's own buffer.  A successful send_message
\* appends exactly one vector of 5 components at the end of the sending
\* node's buffer and leaves the buffer of the other node as it was.  The
\* node's receive_message pops from that same buffer: called on the sender
\* right after the send, it polls the vector just sent (its result is the
\* result for that vector) and leaves the buffer as it was before the send,
\* one vector shorter.
C28_SendFillsOwnBuffer ==
    [][/\ (ret'.op = "send_message" /\ ret'.ok) =>
              \E n \in Nodes :
                  /\ ret'.message = OwnMessage(n)
                  /\ Len(message_buffer'[n]) = Len(message_buffer[n]) + 1
                  /\ Len(Last(message_buffer'[n])) = 5
                  /\ Last(sent'[n]).from = n
                  /\ message_buffer' =
                         [message_buffer EXCEPT
                             ![n] = Append(@, Last(message_buffer'[n]))]
       /\ \A n \in Nodes :
              (/\ ret.op = "send_message" /\ ret.ok
               /\ ret.message = OwnMessage(n)
               /\ ReceiveMessage(n))
              => LET r == receive_pipeline(n, Last(message_buffer[n]))
                 IN  /\ Last(sent[n]).from = n
                     /\ ret'.polled
                     /\ ret'.some = r.option.some
                     /\ ret'.bytes = r.option.bytes
                     /\ Len(message_buffer'[n]) = Len(message_buffer[n]) - 1
                     /\ message_buffer' =
                            [message_buffer EXCEPT
                                ![n] = SubSeq(@, 1, Len(@) - 1)]]_vars

\* C28 happens: node 2 has just sent a vector that it would itself accept,
\* on top of an older one, while node 1 holds a vector of its own.
C28_Witness ==
    /\ ret.op = "send_message" /\ ret.ok /\ ret.message = OwnMessage(2)
    /\ Len(message_buffer[2]) = 2
    /\ Len(message_buffer[1]) = 1
    /\ Last(sent[1]).from = 1
    /\ receive_pipeline(2, Last(message_buffer[2])).option.some

============================================================================
